---- MODULE Spec2Model ----
(***************************************************************************)
(* State-machine model of the staged upload pipeline of                    *)
(* LearningMulterAndCLoudinary: src/multer.js (disk storage only) and the  *)
(* disk-storage server of src/cloudinary.js (lines 82-328: stage to disk,  *)
(* upload to Cloudinary, unlink the local copy).                           *)
(*                                                                         *)
(* JavaScript strings are modelled as sequences of one-character strings,  *)
(* so that path.extname, toLowerCase, RegExp.test and Array.includes are   *)
(* computed the way the runtime computes them.                             *)
(***************************************************************************)
EXTENDS Integers, Sequences, FiniteSets, TLC

(***************************************************************************)
(* Bounds of the model.                                                    *)
(***************************************************************************)
NumReqs == 2        \* concurrent requests
MaxParts == 2       \* file parts one multipart request carries
MaxClock == 1       \* Date.now() ranges over 0..MaxClock
MaxRand == 1        \* Math.round(Math.random() * 1E9) ranges over 0..MaxRand

Reqs == 1..NumReqs

(***************************************************************************)
(* Strings.                                                                *)
(***************************************************************************)
UpperCase == <<"A","B","C","D","E","F","G","H","I","J","K","L","M",
               "N","O","P","Q","R","S","T","U","V","W","X","Y","Z">>
LowerCase == <<"a","b","c","d","e","f","g","h","i","j","k","l","m",
               "n","o","p","q","r","s","t","u","v","w","x","y","z">>

LowerChar(c) ==
    IF \E i \in 1..Len(UpperCase) : UpperCase[i] = c
    THEN LowerCase[CHOOSE i \in 1..Len(UpperCase) : UpperCase[i] = c]
    ELSE c

\* String.prototype.toLowerCase
toLowerCase(s) == [i \in 1..Len(s) |-> LowerChar(s[i])]

\* positions of character c in s
Positions(s, c) == {i \in 1..Len(s) : s[i] = c}

Max(S) == CHOOSE x \in S : \A y \in S : y <= x

\* the last path segment of p (what follows the last "/")
LastSegment(p) ==
    IF Positions(p, "/") = {} THEN p
    ELSE SubSeq(p, Max(Positions(p, "/")) + 1, Len(p))

\* path.extname: from the last "." of the last segment to its end; empty
\* when there is no "." or the only "." is the segment's first character
extname(p) ==
    LET seg == LastSegment(p)
        dots == Positions(seg, ".")
    IN  IF dots = {} \/ Max(dots) = 1 THEN <<>>
        ELSE SubSeq(seg, Max(dots), Len(seg))

EndsWith(s, suffix) ==
    /\ Len(suffix) <= Len(s)
    /\ SubSeq(s, Len(s) - Len(suffix) + 1, Len(s)) = suffix

\* path.basename(p, ext): the last segment with a trailing ext removed
basename(p, ext) ==
    LET seg == LastSegment(p)
    IN  IF ext # <<>> /\ seg # ext /\ EndsWith(seg, ext)
        THEN SubSeq(seg, 1, Len(seg) - Len(ext))
        ELSE seg

\* s contains sub as a contiguous substring
Contains(s, sub) ==
    \E i \in 1..(Len(s) - Len(sub) + 1) : SubSeq(s, i, i + Len(sub) - 1) = sub

\* RegExp.prototype.test for an unanchored alternation /a|b|c/
RegexTest(alternatives, s) == \E a \in alternatives : Contains(s, a)

\* Array.prototype.includes
includes(list, x) == \E i \in 1..Len(list) : list[i] = x

(***************************************************************************)
(* File filters.                                                           *)
(***************************************************************************)
\* /jpeg|jpg|png|gif/
imageFiletypes ==
    { <<"j","p","e","g">>, <<"j","p","g">>, <<"p","n","g">>, <<"g","i","f">> }

\* /pdf|doc|docx|txt/
documentFiletypes ==
    { <<"p","d","f">>, <<"d","o","c">>, <<"d","o","c","x">>, <<"t","x","t">> }

\* ['image/jpeg', 'image/jpg', 'image/png', 'image/gif']
allowedTypes ==
    << <<"i","m","a","g","e","/","j","p","e","g">>,
       <<"i","m","a","g","e","/","j","p","g">>,
       <<"i","m","a","g","e","/","p","n","g">>,
       <<"i","m","a","g","e","/","g","i","f">> >>

\* multer.js: fileFilter accepts on the declared MIME type alone
fileFilter(file) == includes(allowedTypes, file.mimetype)

\* cloudinary.js: upload.fileFilter
upload_fileFilter(file) ==
    LET extnameOk == RegexTest(imageFiletypes, toLowerCase(extname(file.originalname)))
        mimetypeOk == RegexTest(imageFiletypes, file.mimetype)
    IN  mimetypeOk /\ extnameOk

\* cloudinary.js: profileUpload.fileFilter
profileUpload_fileFilter(file) ==
    LET extnameOk == RegexTest(imageFiletypes, toLowerCase(extname(file.originalname)))
        mimetypeOk == RegexTest(imageFiletypes, file.mimetype)
    IN  mimetypeOk /\ extnameOk

\* cloudinary.js: documentUpload.fileFilter
documentUpload_fileFilter(file) ==
    LET extnameOk == RegexTest(documentFiletypes, toLowerCase(extname(file.originalname)))
        mimetypeOk == RegexTest(documentFiletypes, file.mimetype)
    IN  mimetypeOk /\ extnameOk

Filters == {"fileFilter", "upload.fileFilter", "profileUpload.fileFilter",
            "documentUpload.fileFilter"}

ApplyFilter(f, file) ==
    CASE f = "fileFilter" -> fileFilter(file)
      [] f = "upload.fileFilter" -> upload_fileFilter(file)
      [] f = "profileUpload.fileFilter" -> profileUpload_fileFilter(file)
      [] f = "documentUpload.fileFilter" -> documentUpload_fileFilter(file)

(***************************************************************************)
(* Incoming files.                                                         *)
(***************************************************************************)
name_a_png == <<"a",".","p","n","g">>
name_photo_JPG == <<"p","h","o","t","o",".","J","P","G">>
name_malware_exe == <<"m","a","l","w","a","r","e",".","e","x","e">>
name_x_jpgx == <<"x",".","j","p","g","x">>
name_notes_txt == <<"n","o","t","e","s",".","t","x","t">>
name_r_pdf == <<"r",".","p","d","f">>
name_dotpng == <<".","p","n","g">>
name_noext == <<"p","n","g">>

mime_image_png == <<"i","m","a","g","e","/","p","n","g">>
mime_image_jpeg == <<"i","m","a","g","e","/","j","p","e","g">>
mime_msdownload ==
    <<"a","p","p","l","i","c","a","t","i","o","n","/","x","-","m","s","d","o","w","n","l","o","a","d">>
mime_text_plain == <<"t","e","x","t","/","p","l","a","i","n">>
mime_application_pdf == <<"a","p","p","l","i","c","a","t","i","o","n","/","p","d","f">>
mime_text_x_png == <<"t","e","x","t","/","x","-","p","n","g">>

\* limits: { fileSize: 5 * 1024 * 1024 } of upload and profileUpload (cloudinary.js)
\* and of upload (multer.js)
fileSize == 5 * 1024 * 1024

\* the files the requests of the pipeline model carry
Catalog ==
    << [originalname |-> name_a_png, mimetype |-> mime_image_png, size |-> 2048],
       [originalname |-> name_malware_exe, mimetype |-> mime_msdownload, size |-> 2048],
       [originalname |-> name_a_png, mimetype |-> mime_image_png, size |-> fileSize + 1] >>

(***************************************************************************)
(* Routes.                                                                 *)
(***************************************************************************)
CloudRoutes == {"/api/upload/image", "/api/upload/profile"}
LocalRoutes == {"/upload-single", "/upload-multiple", "/upload-multiple-fields"}
Routes == CloudRoutes \cup LocalRoutes

\* the multer instance a route is registered with
FilterOf(rt) ==
    CASE rt = "/api/upload/image" -> "upload.fileFilter"
      [] rt = "/api/upload/profile" -> "profileUpload.fileFilter"
      [] OTHER -> "fileFilter"

\* upload.single(f) / upload.array(f, n) / upload.fields([...]): field -> maxCount
FieldsOf(rt) ==
    CASE rt = "/api/upload/image" -> [f \in {"image"} |-> 1]
      [] rt = "/api/upload/profile" -> [f \in {"avatar"} |-> 1]
      [] rt = "/upload-single" -> [f \in {"myfile"} |-> 1]
      [] rt = "/upload-multiple" -> [f \in {"myfiles"} |-> 3]
      [] rt = "/upload-multiple-fields" ->
            [f \in {"profilepic", "gallery", "documents"} |->
                CASE f = "profilepic" -> 1 [] f = "gallery" -> 5 [] f = "documents" -> 3]

\* where multer leaves the files: req.file (VALUE), req.files as an array
\* (ARRAY) or req.files as an object keyed by field (OBJECT)
StrategyOf(rt) ==
    CASE rt = "/upload-multiple" -> "ARRAY"
      [] rt = "/upload-multiple-fields" -> "OBJECT"
      [] OTHER -> "VALUE"

(***************************************************************************)
(* Staged file names.                                                      *)
(***************************************************************************)
\* cloudinary.js storage.filename / profileStorage.filename:
\* basename + '-' + Date.now() + '-' + Math.round(Math.random() * 1E9) + ext
storage_filename(file, dateNow, random) ==
    LET ext == extname(file.originalname)
        base == basename(file.originalname, ext)
    IN  <<base, "-", dateNow, "-", random, ext>>

\* multer.js storage.filename: `${filenamewithoutExt}-${Date.now()}${ext}`
uniquename(file, dateNow, random) ==
    LET ext == extname(file.originalname)
        filenamewithoutExt == basename(file.originalname, ext)
    IN  <<filenamewithoutExt, "-", dateNow, ext>>

\* destination callbacks of the disk storages
DestinationOf(rt) ==
    CASE rt = "/api/upload/image" -> "uploads/"
      [] rt = "/api/upload/profile" -> "uploads/profiles/"
      [] OTHER -> "./uploads"

StagedPath(rt, file, dateNow, random) ==
    [dir |-> DestinationOf(rt),
     filename |-> IF rt \in CloudRoutes
                  THEN storage_filename(file, dateNow, random)
                  ELSE uniquename(file, dateNow, random)]

(***************************************************************************)
(* State.                                                                  *)
(***************************************************************************)
VARIABLES
    server,       \* the program that is running: multer.js or cloudinary.js
    now,          \* the last value Date.now() returned
    disk,         \* the local directories: a set of [path, owner]; owner is
                  \* <<request, part>>, the upload whose bytes the file holds
    pc,           \* where each request is
    route,        \* the route a request was sent to
    parts,        \* number of file parts multer has seen of a request
    cur,          \* the file part multer is storing: [cat, fieldname]
    files,        \* the files multer stored for a request (req.file, req.files)
    filesSet,     \* whether multer assigned req.files (it does for multipart bodies)
    err,          \* the error last thrown or passed to next(err) in a request
    result,       \* what cloudinary.uploader.upload / uploadAndCleanup produced
    public_id,    \* the public_id option the profile route passed to the upload
    resp,         \* the response sent
    uploads,      \* history: outcomes of the calls of cloudinary.uploader.upload
    unlinkLog,    \* history: outcomes of the fs.unlink calls of the handler
    rejected,     \* history: parts the file filter rejected
    written,      \* history: parts written to the staging directory
    vfile, vfilter, vverdict   \* the validator applied to one file on its own

vars == <<server, now, disk, pc, route, parts, cur, files, filesSet, err, result, public_id,
          resp, uploads, unlinkLog, rejected, written, vfile, vfilter, vverdict>>

valVars == <<vfile, vfilter, vverdict>>

Undefined == [kind |-> "undefined"]
NoFile == [cat |-> 0, fieldname |-> ""]
NoResp == [status |-> 0, body |-> "", data |-> Undefined, details |-> "", files |-> <<>>]

\* the result of a successful cloudinary.uploader.upload of the bytes of `owner`
Descriptor(owner) == [kind |-> "descriptor", content |-> owner]

OnDisk(path) == \E e \in disk : e.path = path
OwnerAt(path) == (CHOOSE e \in disk : e.path = path).owner
\* writing a path replaces what it held
WriteFile(d, path, owner) == {e \in d : e.path # path} \cup {[path |-> path, owner |-> owner]}
RemoveFile(d, path) == {e \in d : e.path # path}

\* fs.unlink: succeeds or fails on a file that exists, fails on one that does not
UnlinkOutcomes(path) == IF OnDisk(path) THEN {"ok", "eperm"} ELSE {"enoent"}
AfterUnlink(d, path, outcome) == IF outcome = "ok" THEN RemoveFile(d, path) ELSE d

\* each of the two files is a server of its own (its own app and app.listen)
Servers == {"multer.js", "cloudinary.js"}
RoutesOf(srv) == IF srv = "cloudinary.js" THEN CloudRoutes ELSE LocalRoutes

PipeInit ==
    /\ server \in Servers
    /\ now = 0
    /\ disk = {}
    /\ pc = [r \in Reqs |-> "idle"]
    /\ route = [r \in Reqs |-> ""]
    /\ parts = [r \in Reqs |-> 0]
    /\ cur = [r \in Reqs |-> NoFile]
    /\ files = [r \in Reqs |-> <<>>]
    /\ filesSet = [r \in Reqs |-> FALSE]
    /\ err = [r \in Reqs |-> ""]
    /\ result = [r \in Reqs |-> Undefined]
    /\ public_id = [r \in Reqs |-> <<>>]
    /\ resp = [r \in Reqs |-> NoResp]
    /\ uploads = [r \in Reqs |-> <<>>]
    /\ unlinkLog = [r \in Reqs |-> <<>>]
    /\ rejected = [r \in Reqs |-> {}]
    /\ written = [r \in Reqs |-> {}]

ValIdle ==
    /\ vfile = [originalname |-> <<>>, mimetype |-> <<>>]
    /\ vfilter = ""
    /\ vverdict = "idle"

Init == PipeInit /\ ValIdle

(***************************************************************************)
(* The multer middleware of a route: upload.single / array / fields.       *)
(***************************************************************************)
\* A request arrives. multer handles multipart bodies only: for any other
\* body it calls next() at once and leaves req.file and req.files unset.
Receive(r, rt, multipart) ==
    /\ pc[r] = "idle"
    /\ rt \in RoutesOf(server)
    \* requests are interchangeable: they are numbered in their order of arrival
    /\ \A q \in Reqs : q < r => pc[q] # "idle"
    /\ route' = [route EXCEPT ![r] = rt]
    /\ filesSet' = [filesSet EXCEPT ![r] = multipart /\ StrategyOf(rt) # "VALUE"]
    /\ pc' = [pc EXCEPT ![r] = IF multipart THEN "multer" ELSE "handler"]
    /\ UNCHANGED <<server, now, disk, parts, cur, files, err, result, resp,
                   uploads, unlinkLog, rejected, written>>
    /\ UNCHANGED <<public_id, valVars>>

\* files of the request already counted against a field
CountOf(r, fld) == Cardinality({i \in 1..Len(files[r]) : files[r][i].fieldname = fld})

\* a filter whose rejection does not stop the file from being stored
AfterFilter_storesAnyway(accepted) == "stage"

\* what follows the file filter's callback: cb(null, true) lets multer store
\* the file, cb(new Error(...)) makes it abort the request
AfterFilter(accepted) == IF accepted THEN "stage" ELSE "abort"

\* A file part arrives: multer checks the field's count, then calls the
\* route's fileFilter, before anything is written.
FilePart(r, c, fld) ==
    /\ pc[r] = "multer"
    /\ parts[r] < MaxParts
    /\ fld \in DOMAIN FieldsOf(route[r])
    /\ parts' = [parts EXCEPT ![r] = @ + 1]
    /\ IF CountOf(r, fld) >= FieldsOf(route[r])[fld]
       THEN /\ err' = [err EXCEPT ![r] = "LIMIT_UNEXPECTED_FILE"]
            /\ pc' = [pc EXCEPT ![r] = "abort"]
            /\ UNCHANGED <<cur, rejected>>
       ELSE LET accepted == ApplyFilter(FilterOf(route[r]), Catalog[c])
            IN  /\ pc' = [pc EXCEPT ![r] = AfterFilter(accepted)]
                /\ cur' = [cur EXCEPT ![r] = [cat |-> c, fieldname |-> fld]]
                /\ rejected' = [rejected EXCEPT ![r] =
                                    IF accepted THEN @ ELSE @ \cup {parts[r] + 1}]
                /\ err' = [err EXCEPT ![r] = IF accepted THEN @ ELSE "FILTER_ERROR"]
    /\ UNCHANGED <<server, now, disk, route, files, filesSet, result, resp,
                   uploads, unlinkLog, written>>
    /\ UNCHANGED <<public_id, valVars>>

\* the random suffixes of the staged names that are still known to a request
\* or present on disk
UsedRandoms ==
    LET staged == UNION {{files[q][i].path : i \in 1..Len(files[q])} : q \in Reqs}
        known == staged \cup {e.path : e \in disk}
    IN  {p.filename[5] : p \in {q \in known : Len(q.filename) = 6}}

\* Date.now() never runs backwards. Only the order and the equality of its
\* values matter, so between two calls the clock stands still or advances
\* by one.
ClockValues == {t \in {now, now + 1} : t <= MaxClock}

\* Math.round(Math.random() * 1E9): only the equality of two values matters,
\* so a call returns a value already in use or the least value not in use.
\* multer.js makes no such call.
RandomValues(rt) ==
    IF rt \in CloudRoutes
    THEN {n \in 0..MaxRand : n \in UsedRandoms \/ \A k \in 0..(n - 1) : k \in UsedRandoms}
    ELSE {0}

\* storage._handleFile: the destination and filename callbacks run and the
\* file is written. dateNow is what Date.now() returns, random what
\* Math.round(Math.random() * 1E9) returns. A file larger than limits.fileSize
\* makes multer abort with LIMIT_FILE_SIZE and remove what was written of it.
Stage(r, dateNow, random) ==
    /\ pc[r] = "stage"
    /\ dateNow \in ClockValues
    /\ random \in RandomValues(route[r])
    /\ now' = dateNow
    /\ LET file == Catalog[cur[r].cat]
           path == StagedPath(route[r], file, dateNow, random)
           owner == <<r, parts[r]>>
       IN  IF file.size > fileSize
           THEN /\ err' = [err EXCEPT ![r] = "LIMIT_FILE_SIZE"]
                /\ pc' = [pc EXCEPT ![r] = "abort"]
                /\ UNCHANGED <<disk, files, written>>
           ELSE /\ disk' = WriteFile(disk, path, owner)
                /\ files' = [files EXCEPT ![r] =
                                Append(@, [part |-> parts[r], cat |-> cur[r].cat,
                                           fieldname |-> cur[r].fieldname, path |-> path])]
                /\ written' = [written EXCEPT ![r] = @ \cup {parts[r]}]
                /\ pc' = [pc EXCEPT ![r] = "multer"]
                /\ UNCHANGED err
    /\ cur' = [cur EXCEPT ![r] = NoFile]
    /\ UNCHANGED <<server, route, parts, filesSet, result, resp, uploads, unlinkLog, rejected>>
    /\ UNCHANGED <<public_id, valVars>>

\* the body has been read: multer calls next() and the route handler runs
EndOfForm(r) ==
    /\ pc[r] = "multer"
    /\ pc' = [pc EXCEPT ![r] = "handler"]
    /\ UNCHANGED <<server, now, disk, route, parts, cur, files, filesSet, err, result, resp,
                   uploads, unlinkLog, rejected, written>>
    /\ UNCHANGED <<public_id, valVars>>

RECURSIVE RemoveAll(_, _)
RemoveAll(d, fs) == IF fs = <<>> THEN d ELSE RemoveAll(RemoveFile(d, Head(fs).path), Tail(fs))

\* the outcomes of multer's unlink of each stored file, in order
RECURSIVE RemoveLog(_, _)
RemoveLog(d, fs) ==
    IF fs = <<>> THEN <<>>
    ELSE <<IF \E e \in d : e.path = Head(fs).path THEN "ok" ELSE "enoent">>
         \o RemoveLog(RemoveFile(d, Head(fs).path), Tail(fs))

\* multer aborts: it removes the files it stored for the request and calls
\* next(err). Neither server registers an error-handling middleware, so
\* Express's default handler answers with err.status || 500.
Abort(r) ==
    /\ pc[r] = "abort"
    /\ disk' = RemoveAll(disk, files[r])
    /\ unlinkLog' = [unlinkLog EXCEPT ![r] = @ \o RemoveLog(disk, files[r])]
    /\ files' = [files EXCEPT ![r] = <<>>]
    /\ cur' = [cur EXCEPT ![r] = NoFile]
    /\ resp' = [resp EXCEPT ![r] = [status |-> 500, body |-> "express default error page",
                                    data |-> Undefined, details |-> err[r], files |-> <<>>]]
    /\ pc' = [pc EXCEPT ![r] = "done"]
    /\ UNCHANGED <<server, now, route, parts, filesSet, err, result, uploads,
                   rejected, written>>
    /\ UNCHANGED <<public_id, valVars>>

(***************************************************************************)
(* Route handlers.                                                         *)
(***************************************************************************)
\* a handler that returns without calling res.json
Respond_notSent(r, status, body, data, details, fileInfos) ==
    /\ UNCHANGED resp
    /\ pc' = [pc EXCEPT ![r] = "done"]

\* res.status(status).json({...}), which ends the handling of the request
Respond(r, status, body, data, details, fileInfos) ==
    /\ resp' = [resp EXCEPT ![r] = [status |-> status, body |-> body, data |-> data,
                                    details |-> details, files |-> fileInfos]]
    /\ pc' = [pc EXCEPT ![r] = "done"]

NoPath == [dir |-> "", filename |-> <<>>]

\* multer.js /upload-single: originalName, savedAs, size and path of req.file
SingleFileInfo(f) ==
    [part |-> f.part, fieldname |-> f.fieldname, originalName |-> Catalog[f.cat].originalname,
     savedAs |-> f.path.filename, path |-> f.path]

\* multer.js /upload-multiple and /upload-multiple-fields: no path
FileInfo(f) ==
    [part |-> f.part, fieldname |-> f.fieldname, originalName |-> Catalog[f.cat].originalname,
     savedAs |-> f.path.filename, path |-> NoPath]

\* the profile route builds the options of its upload, line 290:
\* public_id: `profile_${Date.now()}`; the image route passes no public_id
\* and leaves the choice of one to the provider
OptionsPublicId(rt, dateNow) ==
    IF rt = "/api/upload/profile" THEN <<"profile_", dateNow>> ELSE <<>>

\* the values Date.now() can return in the handler's entry: the profile route
\* calls it when it has a file, the other routes do not call it
HandlerClock(r) ==
    IF route[r] = "/api/upload/profile" /\ files[r] # <<>> THEN ClockValues ELSE {now}

\* an uploadAndCleanup that unlinks without awaiting the upload
uploadAndCleanup_unlinksFirst == "unlinkTry"

\* uploadAndCleanup begins with the call of cloudinary.uploader.upload, line 212
uploadAndCleanup == "upload"

\* the handler's entry, up to its first await or its response
Handler(r, dateNow) ==
    /\ pc[r] = "handler"
    /\ dateNow \in HandlerClock(r)
    /\ now' = dateNow
    /\ CASE route[r] \in CloudRoutes ->
              \* if (!req.file) return res.status(400)...; else uploadAndCleanup(...)
              IF files[r] = <<>>
              THEN /\ Respond(r, 400, IF route[r] = "/api/upload/image"
                                      THEN "No file uploaded"
                                      ELSE "no profile image uploaded",
                              Undefined, "", <<>>)
                   /\ UNCHANGED public_id
              ELSE /\ pc' = [pc EXCEPT ![r] = uploadAndCleanup]
                   /\ public_id' = [public_id EXCEPT ![r] = OptionsPublicId(route[r], dateNow)]
                   /\ UNCHANGED resp
         [] route[r] = "/upload-single" ->
              /\ IF files[r] = <<>>
                 THEN Respond(r, 400, "No file uploaded", Undefined, "", <<>>)
                 ELSE Respond(r, 200, "File uploaded successfully", Undefined, "",
                              <<SingleFileInfo(files[r][1])>>)
              /\ UNCHANGED public_id
         [] route[r] = "/upload-multiple" ->
              \* if (!req.files || req.files.length === 0)
              /\ IF ~filesSet[r] \/ Len(files[r]) = 0
                 THEN Respond(r, 400, "No files uploaded", Undefined, "", <<>>)
                 ELSE Respond(r, 200, "files uploaded successfully", Undefined, "",
                              [i \in 1..Len(files[r]) |-> FileInfo(files[r][i])])
              /\ UNCHANGED public_id
         [] route[r] = "/upload-multiple-fields" ->
              \* if (!req.files): an empty object is truthy
              /\ IF ~filesSet[r]
                 THEN Respond(r, 400, "No files uploaded", Undefined, "", <<>>)
                 ELSE Respond(r, 200, "success", Undefined, "",
                              [i \in 1..Len(files[r]) |-> FileInfo(files[r][i])])
              /\ UNCHANGED public_id
    /\ UNCHANGED <<server, disk, route, parts, cur, files, filesSet, err, result,
                   uploads, unlinkLog, rejected, written>>
    /\ UNCHANGED valVars

\* req.file.path, the filePath argument of uploadAndCleanup and deleteLocalFile
FilePath(r) == files[r][1].path

\* cloudinary.uploader.upload reads the local file: it cannot succeed when
\* the path holds nothing, and may fail for the provider's own reasons
UploadOutcomes(path) == IF OnDisk(path) THEN {"ok", "failed"} ELSE {"failed"}

\* an uploadAndCleanup that calls the upload again when it failed
catchError_retries == "upload"

\* uploadAndCleanup, line 216: a rejected upload is thrown into catch (error),
\* whose first statement is the unlink of line 218
catchError == "unlinkCatch"

\* uploadAndCleanup, line 212: await cloudinary.uploader.upload(filePath, options)
UploadResolve(r, outcome) ==
    /\ pc[r] = "upload"
    /\ outcome \in UploadOutcomes(FilePath(r))
    /\ uploads' = [uploads EXCEPT ![r] = Append(@, outcome)]
    /\ IF outcome = "ok"
       THEN /\ result' = [result EXCEPT ![r] = Descriptor(OwnerAt(FilePath(r)))]
            /\ pc' = [pc EXCEPT ![r] = "unlinkTry"]
            /\ UNCHANGED err
       ELSE \* the provider's error is thrown into the catch block of line 216
            /\ result' = [result EXCEPT ![r] = Undefined]
            /\ err' = [err EXCEPT ![r] = "ProviderError"]
            /\ pc' = [pc EXCEPT ![r] = catchError]
    /\ UNCHANGED <<server, now, disk, route, parts, cur, files, filesSet, resp,
                   unlinkLog, rejected, written>>
    /\ UNCHANGED <<public_id, valVars>>

\* what the route does with the value uploadAndCleanup resolved to
\* (image: lines 250; profile: lines 298-310, where result.secure_url throws
\* a TypeError on undefined and the route's catch block takes over)
AfterUploadAndCleanup(r, value) ==
    IF route[r] = "/api/upload/image"
    THEN /\ Respond(r, 200, "Image uploaded successfully", value, "", <<>>)
         /\ UNCHANGED err
    ELSE IF value = Undefined
         THEN /\ err' = [err EXCEPT ![r] = "TypeError"]
              /\ pc' = [pc EXCEPT ![r] = "routeCatch"]
              /\ UNCHANGED resp
         ELSE /\ Respond(r, 200, "Profile image uploaded successfully", value, "", <<>>)
              /\ UNCHANGED err

\* line 213: await fs.unlink(filePath) after a successful upload
unlinkAfterUpload(d, filePath, outcome) == AfterUnlink(d, filePath, outcome)

\* a catch block that forgets the cleanup
unlinkAfterFailure_skipped(d, filePath, outcome) == d

\* line 218: await fs.unlink(filePath) in the catch block
unlinkAfterFailure(d, filePath, outcome) == AfterUnlink(d, filePath, outcome)

\* deleteLocalFile, lines 226-235
deleteLocalFile(d, filePath, outcome) == AfterUnlink(d, filePath, outcome)

\* uploadAndCleanup, lines 213-215: unlink, then return result; a failed
\* unlink throws into the catch block of line 216
UnlinkTry(r, outcome) ==
    /\ pc[r] = "unlinkTry"
    /\ outcome \in UnlinkOutcomes(FilePath(r))
    /\ unlinkLog' = [unlinkLog EXCEPT ![r] = Append(@, outcome)]
    /\ disk' = unlinkAfterUpload(disk, FilePath(r), outcome)
    /\ IF outcome = "ok"
       THEN /\ AfterUploadAndCleanup(r, result[r])
            /\ UNCHANGED result
       ELSE /\ pc' = [pc EXCEPT ![r] = "unlinkCatch"]
            /\ err' = [err EXCEPT ![r] = "UnlinkError"]
            /\ UNCHANGED <<result, resp>>
    /\ UNCHANGED <<server, now, route, parts, cur, files, filesSet, uploads, rejected, written>>
    /\ UNCHANGED <<public_id, valVars>>

\* uploadAndCleanup, lines 216-224: the catch block unlinks, logs, and the
\* function ends without a return statement: it resolves to undefined
UnlinkCatch(r, outcome) ==
    /\ pc[r] = "unlinkCatch"
    /\ outcome \in UnlinkOutcomes(FilePath(r))
    /\ unlinkLog' = [unlinkLog EXCEPT ![r] = Append(@, outcome)]
    /\ disk' = unlinkAfterFailure(disk, FilePath(r), outcome)
    /\ result' = [result EXCEPT ![r] = Undefined]
    /\ AfterUploadAndCleanup(r, Undefined)
    /\ UNCHANGED <<server, now, route, parts, cur, files, filesSet, uploads, rejected, written>>
    /\ UNCHANGED <<public_id, valVars>>

\* the route's catch block (profile: lines 312-320): deleteLocalFile, then
\* status 500 with details: error.message
RouteCatch(r, outcome) ==
    /\ pc[r] = "routeCatch"
    /\ outcome \in UnlinkOutcomes(FilePath(r))
    /\ unlinkLog' = [unlinkLog EXCEPT ![r] = Append(@, outcome)]
    /\ disk' = deleteLocalFile(disk, FilePath(r), outcome)
    /\ Respond(r, 500, "Server error", Undefined, err[r], <<>>)
    /\ UNCHANGED <<server, now, route, parts, cur, files, filesSet, err, result, uploads,
                   rejected, written>>
    /\ UNCHANGED <<public_id, valVars>>

Next ==
    \/ \E r \in Reqs, rt \in Routes, multipart \in BOOLEAN : Receive(r, rt, multipart)
    \/ \E r \in Reqs, c \in 1..Len(Catalog), fld \in {"image", "avatar", "myfile", "myfiles",
                                                      "profilepic", "gallery"} :
          FilePart(r, c, fld)
    \/ \E r \in Reqs, dateNow \in 0..MaxClock, random \in 0..MaxRand : Stage(r, dateNow, random)
    \/ \E r \in Reqs : EndOfForm(r)
    \/ \E r \in Reqs : Abort(r)
    \/ \E r \in Reqs, dateNow \in 0..MaxClock : Handler(r, dateNow)
    \/ \E r \in Reqs, outcome \in {"ok", "failed"} : UploadResolve(r, outcome)
    \/ \E r \in Reqs, outcome \in {"ok", "eperm", "enoent"} : UnlinkTry(r, outcome)
    \/ \E r \in Reqs, outcome \in {"ok", "eperm", "enoent"} : UnlinkCatch(r, outcome)
    \/ \E r \in Reqs, outcome \in {"ok", "eperm", "enoent"} : RouteCatch(r, outcome)

Spec == Init /\ [][Next]_vars

(***************************************************************************)
(* The file filters on their own: one filter applied to one file.          *)
(***************************************************************************)
VNames == {name_a_png, name_photo_JPG, name_malware_exe, name_x_jpgx, name_notes_txt,
           name_r_pdf, name_dotpng, name_noext}
VMimes == {mime_image_png, mime_image_jpeg, mime_msdownload, mime_text_plain,
           mime_application_pdf, mime_text_x_png}

ValInit ==
    /\ PipeInit
    /\ vfile \in [originalname : VNames, mimetype : VMimes]
    /\ vfilter \in Filters
    /\ vverdict = "pending"

\* the filter calls cb(null, true) or cb(new Error(...))
Validate ==
    /\ vverdict = "pending"
    /\ vverdict' = IF ApplyFilter(vfilter, vfile) THEN "accept" ELSE "reject"
    /\ UNCHANGED <<server, now, disk, pc, route, parts, cur, files, filesSet, err, result,
                   public_id, resp, uploads, unlinkLog, rejected, written, vfile, vfilter>>

ValNext == Validate

ValSpec == ValInit /\ [][ValNext]_vars

\* the server of cloudinary.js alone
CloudInit == Init /\ server = "cloudinary.js"
CloudSpec == CloudInit /\ [][Next]_vars

\* The steps of a handler are continuations on Node's event loop: once the
\* handler has been entered, or the promise of cloudinary.uploader.upload or
\* of fs.unlink has settled, the continuation runs.
Fairness ==
    \A r \in Reqs :
        /\ WF_vars(\E dateNow \in 0..MaxClock : Handler(r, dateNow))
        /\ WF_vars(\E outcome \in {"ok", "failed"} : UploadResolve(r, outcome))
        /\ WF_vars(\E outcome \in {"ok", "eperm", "enoent"} : UnlinkTry(r, outcome))
        /\ WF_vars(\E outcome \in {"ok", "eperm", "enoent"} : UnlinkCatch(r, outcome))
        /\ WF_vars(\E outcome \in {"ok", "eperm", "enoent"} : RouteCatch(r, outcome))

\* the server of cloudinary.js with its handlers scheduled
LiveSpec == CloudInit /\ [][Next]_vars /\ Fairness

(***************************************************************************)
(* Properties.                                                             *)
(***************************************************************************)
Done(r) == pc[r] = "done"
Has(seq, x) == \E i \in 1..Len(seq) : seq[i] = x
\* the files on disk that hold bytes staged by request r
OwnedBy(r) == {e \in disk : e.owner[1] = r}
\* the handler of a cloudinary.js route answered for a file multer staged
CloudStaged(r) == Done(r) /\ route[r] \in CloudRoutes /\ files[r] # <<>>

\* C1: on the image and profile routes, a request that staged a file makes
\* exactly one delete attempt on it over its whole handling, whatever the
\* outcomes of the upload and of the delete.
C1_ExactlyOneDeleteAttempt ==
    \A r \in Reqs : CloudStaged(r) => Len(unlinkLog[r]) = 1

\* C2: when staging succeeded and the remote upload failed, the response is
\* a failure, carries the provider's error and holds no remote descriptor, on
\* the image route and on the profile route.
C2_TransferFailureReported ==
    \A r \in Reqs :
        (CloudStaged(r) /\ Has(uploads[r], "failed")) =>
            /\ resp[r].status >= 400
            /\ resp[r].details = "ProviderError"
            /\ resp[r].data = Undefined

\* C3: when the remote upload succeeded and the local delete that follows
\* failed, the response is still the success carrying the descriptor the
\* upload returned.
C3_DeleteFailureKeepsSuccess ==
    \A r \in Reqs :
        (CloudStaged(r) /\ uploads[r] = <<"ok">> /\ unlinkLog[r][1] # "ok") =>
            /\ resp[r].status = 200
            /\ resp[r].data = result[r]
            /\ resp[r].data.kind = "descriptor"

StagedFiles == {<<r, i>> : r \in Reqs, i \in 1..MaxParts} \cap
               {x \in Reqs \X (1..MaxParts) : x[2] <= Len(files[x[1]])}

\* C5: two uploads of different requests with identical original filenames
\* always get two distinct staged paths.
C5_DistinctStagedPaths ==
    \A x, y \in StagedFiles :
        (x[1] # y[1] /\
         Catalog[files[x[1]][x[2]].cat].originalname = Catalog[files[y[1]][y[2]].cat].originalname)
            => files[x[1]][x[2]].path # files[y[1]][y[2]].path

imageExtensions ==
    { <<".","j","p","g">>, <<".","j","p","e","g">>, <<".","p","n","g">>, <<".","g","i","f">> }
imageMimeTypes == {allowedTypes[i] : i \in 1..Len(allowedTypes)}
ImageFilters == {"fileFilter", "upload.fileFilter", "profileUpload.fileFilter"}

\* C7: an image filter accepts a file if and only if its lower-cased
\* extension is a member of the allowed extensions and its declared MIME type
\* is a member of the allowed MIME types.
C7_ExactMembership ==
    (vverdict \in {"accept", "reject"} /\ vfilter \in ImageFilters) =>
        ((vverdict = "accept") <=>
            /\ toLowerCase(extname(vfile.originalname)) \in imageExtensions
            /\ vfile.mimetype \in imageMimeTypes)

\* C8: a request that carries no file is answered with status 400 and no
\* per-file detail, and causes no staging and no remote upload, in the
\* single-file, the array and the multi-field modes.
C8_NoFileIsClientError ==
    \A r \in Reqs :
        (Done(r) /\ parts[r] = 0) =>
            /\ resp[r].status = 400
            /\ resp[r].files = <<>>
            /\ written[r] = {}
            /\ uploads[r] = <<>>

\* C9: in the array mode, the rejection of one file does not discard its
\* siblings: every file of the request that was staged has its outcome in
\* the response.
C9_SiblingsKept ==
    \A r \in Reqs :
        (Done(r) /\ route[r] = "/upload-multiple" /\ rejected[r] # {}) =>
            \A k \in written[r] : \E i \in 1..Len(resp[r].files) : resp[r].files[i].part = k

\* C10: a missing file, a rejected file and an oversized file are answered
\* with a 4xx status, a failed remote transfer with a 5xx status.
C10_StatusClasses ==
    \A r \in Reqs :
        Done(r) =>
            /\ (parts[r] = 0 \/ rejected[r] # {} \/ err[r] = "LIMIT_FILE_SIZE")
                  => resp[r].status \in 400..499
            /\ Has(uploads[r], "failed") => resp[r].status \in 500..599

\* C11: no response, on any route and on any path, contains the local
\* filesystem path of a staged file.
C11_NoLocalPathInResponse ==
    \A r \in Reqs :
        Done(r) => \A i \in 1..Len(resp[r].files) : resp[r].files[i].path = NoPath

\* the errors a response names: details is the message of one error
ErrorsReported(r) == IF resp[r].details = "" THEN {} ELSE {resp[r].details}

\* C12: when the remote upload failed and the delete of the staged file that
\* follows failed too, the response is a failure that names the cleanup
\* failure in addition to the transfer failure.
C12_CleanupFailureCompounded ==
    \A r \in Reqs :
        (CloudStaged(r) /\ uploads[r] = <<"failed">> /\ unlinkLog[r][1] # "ok") =>
            /\ resp[r].status >= 400
            /\ {"ProviderError", "UnlinkError"} \subseteq ErrorsReported(r)

\* C13: on the image and profile routes the stages of a file are ordered:
\* the call of the remote upload starts only when the file has been staged
\* and multer has finished, and the handler attempts no delete of the staged
\* file before the upload call has resolved. (What another request does to a
\* path both requests were given is the matter of C15.)
C13_StagesOrdered ==
    [][\A r \in Reqs :
          route[r] \in CloudRoutes =>
              /\ (pc'[r] = "upload" /\ pc[r] # "upload") =>
                    /\ files[r] # <<>>
                    /\ files[r][1].part \in written[r]
                    /\ cur[r] = NoFile
              /\ (pc[r] # "abort" /\ unlinkLog'[r] # unlinkLog[r]) =>
                    /\ Len(uploads[r]) = 1
                    /\ pc[r] # "upload"]_vars

\* C13 witness: a request went through the three stages: it staged a file,
\* its upload resolved and its handler attempted the delete.
C13_Witness ==
    \E r \in Reqs : CloudStaged(r) /\ uploads[r] # <<>> /\ unlinkLog[r] # <<>>

\* an unlink succeeded or failed
UnlinkResult(o) == IF o = "ok" THEN "ok" ELSE "failed"
\* the outcomes of the upload call and of the delete calls of a request
Outcomes(r) ==
    [route |-> route[r], upload |-> uploads[r],
     unlinks |-> [i \in 1..Len(unlinkLog[r]) |-> UnlinkResult(unlinkLog[r][i])]]
\* what the caller is told
Answer(r) ==
    [status |-> resp[r].status, body |-> resp[r].body, details |-> resp[r].details,
     data |-> resp[r].data.kind]

\* C14: the remote upload is called at most once for a staged file, a failed
\* upload is not retried, and two requests of one route whose upload call and
\* delete calls had the same outcomes get the same response.
C14_UploadAtMostOnce ==
    /\ \A r \in Reqs : Len(uploads[r]) <= 1
    /\ \A r, q \in Reqs :
          (CloudStaged(r) /\ CloudStaged(q) /\ Outcomes(r) = Outcomes(q))
              => Answer(r) = Answer(q)

\* C14 witness: two requests have been answered whose single upload call
\* failed and whose delete calls had the same outcomes.
C14_Witness ==
    \E r, q \in Reqs :
        /\ r < q
        /\ CloudStaged(r) /\ CloudStaged(q)
        /\ Outcomes(r) = Outcomes(q)
        /\ uploads[r] = <<"failed">>

\* C15: on the image and profile routes, under every interleaving of
\* concurrent requests, a delete made by the handler of a request removes
\* only a file that holds what this request staged, and the upload of a
\* request reads only what this request staged.
C15_CleanupOnlyOwnFile ==
    [][\A r \in Reqs :
          route[r] \in CloudRoutes =>
              /\ (pc[r] # "abort" /\ unlinkLog'[r] # unlinkLog[r]) =>
                    \A e \in disk \ disk' : e.owner[1] = r
              /\ (uploads'[r] # uploads[r] /\ result'[r].kind = "descriptor") =>
                    result'[r].content[1] = r]_vars

\* C16: every request that reaches the handler of the image or of the
\* profile route is eventually answered, whatever the outcomes of the upload
\* and of the deletes, and a response once sent is never followed by a second.
C16_ExactlyOneResponse ==
    /\ \A r \in Reqs : (pc[r] = "handler") ~> (Done(r) /\ resp[r] # NoResp)
    /\ [][\A r \in Reqs : resp[r] # NoResp => resp'[r] = resp[r]]_vars

\* C16 witness: the profile route answered a request whose upload failed and
\* whose deletes failed too.
C16_Witness ==
    \E r \in Reqs :
        /\ CloudStaged(r) /\ route[r] = "/api/upload/profile"
        /\ uploads[r] = <<"failed">>
        /\ unlinkLog[r] = <<"eperm", "eperm">>
        /\ resp[r] # NoResp

\* C17: two distinct profile uploads that reached the remote store were sent
\* under two distinct public ids, also when both were handled within one
\* millisecond.
C17_DistinctPublicIds ==
    \A r, q \in Reqs :
        (/\ r # q
         /\ route[r] = "/api/upload/profile" /\ route[q] = "/api/upload/profile"
         /\ uploads[r] = <<"ok">> /\ uploads[q] = <<"ok">>)
            => public_id[r] # public_id[q]

====
